---- MODULE Spec2Model ----
(***************************************************************************)
(* A model of the text-to-structure parsers of src/embedding.py            *)
(* (QuizParser, AssignmentParser), of their save(), and of the hand-over   *)
(* of the parsed scenarios to LLM.normalize_chunk by server.forecast.      *)
(*                                                                         *)
(* A Python str is modelled as a sequence of lexemes.  A lexeme is either  *)
(* a single character ("\n", " ", ":", a digit, a bullet glyph, ...) or a  *)
(* run of characters that the parsers only ever treat as a unit (a marker  *)
(* such as "Questions:", a word of prose).  The alphabet is chosen so that *)
(* no marker of the source can straddle two lexemes; the one marker that   *)
(* the code rewrites, "[CORRECT]", is kept as the two lexemes "[CORRECT"   *)
(* and "]" so that str.replace is modelled on its parts.                   *)
(***************************************************************************)
EXTENDS Integers, Sequences, FiniteSets, TLC

\* ------------------------------------------------------------------------
\* Python str primitives, over sequences of lexemes
\* ------------------------------------------------------------------------

\* the characters str.strip() and str.split() treat as whitespace, and \s
Whitespace == {" ", "\n"}

\* the characters \d matches
Digits == {"0", "1", "2", "3", "4", "5", "6", "7", "8", "9"}

DigitVal(c) ==
    CASE c = "0" -> 0 [] c = "1" -> 1 [] c = "2" -> 2 [] c = "3" -> 3
      [] c = "4" -> 4 [] c = "5" -> 5 [] c = "6" -> 6 [] c = "7" -> 7
      [] c = "8" -> 8 [] c = "9" -> 9

SetMin(S) == CHOOSE i \in S : \A j \in S : i <= j

\* s[i:] of Python, 1-based: the suffix of s from position i
From(s, i) == SubSeq(s, i, Len(s))

\* str.lstrip(chars)
RECURSIVE LStrip(_, _)
LStrip(s, chars) ==
    IF s # <<>> /\ Head(s) \in chars THEN LStrip(Tail(s), chars) ELSE s

\* str.rstrip(chars)
RECURSIVE RStrip(_, _)
RStrip(s, chars) ==
    IF s # <<>> /\ s[Len(s)] \in chars
    THEN RStrip(SubSeq(s, 1, Len(s) - 1), chars)
    ELSE s

\* str.strip()
Strip(s) == RStrip(LStrip(s, Whitespace), Whitespace)

\* str.startswith(m)
StartsWith(s, m) == Len(s) >= Len(m) /\ SubSeq(s, 1, Len(m)) = m

\* the positions at which m occurs in s
Occurrences(s, m) ==
    {i \in 1..(Len(s) - Len(m) + 1) : SubSeq(s, i, i + Len(m) - 1) = m}

\* str.find(m), 1-based, 0 when m does not occur
Find(s, m) == IF Occurrences(s, m) = {} THEN 0 ELSE SetMin(Occurrences(s, m))

\* m in s
Contains(s, m) == Occurrences(s, m) # {}

\* s.split(m, 1): one element when m does not occur, two when it does
SplitOnce(s, m) ==
    IF Contains(s, m)
    THEN <<SubSeq(s, 1, Find(s, m) - 1), From(s, Find(s, m) + Len(m))>>
    ELSE <<s>>

\* str.splitlines()
RECURSIVE SplitLines(_)
SplitLines(s) ==
    IF s = <<>> THEN <<>>
    ELSE LET i == Find(s, <<"\n">>)
         IN  IF i = 0 THEN <<s>>
             ELSE <<SubSeq(s, 1, i - 1)>> \o SplitLines(From(s, i + 1))

\* str.split(): the maximal runs of non-whitespace
RECURSIVE SplitWords(_)
SplitWords(s) ==
    LET t == LStrip(s, Whitespace)
    IN  IF t = <<>> THEN <<>>
        ELSE LET ws == {i \in 1..Len(t) : t[i] \in Whitespace}
                 e  == IF ws = {} THEN Len(t) + 1 ELSE SetMin(ws)
             IN  <<SubSeq(t, 1, e - 1)>> \o SplitWords(From(t, e))

\* sep.join(parts)
RECURSIVE Join(_, _)
Join(parts, sep) ==
    IF parts = <<>> THEN <<>>
    ELSE IF Len(parts) = 1 THEN parts[1]
    ELSE parts[1] \o sep \o Join(Tail(parts), sep)

\* str.replace(old, new): the non-overlapping occurrences, left to right
RECURSIVE Replace(_, _, _)
Replace(s, old, new) ==
    IF s = <<>> THEN <<>>
    ELSE IF StartsWith(s, old)
    THEN new \o Replace(From(s, Len(old) + 1), old, new)
    ELSE <<Head(s)>> \o Replace(Tail(s), old, new)

\* the length of the longest run of lexemes of class, starting at s[i]
RECURSIVE RunLen(_, _, _)
RunLen(s, i, class) ==
    IF i <= Len(s) /\ s[i] \in class THEN 1 + RunLen(s, i + 1, class) ELSE 0

\* int(digits) for a non-empty run of digits
RECURSIVE ToInt(_)
ToInt(ds) ==
    IF ds = <<>> THEN 0
    ELSE 10 * ToInt(SubSeq(ds, 1, Len(ds) - 1)) + DigitVal(ds[Len(ds)])

\* [x for x in xs if x]: the non-empty strings of a list
RECURSIVE NonEmpty(_)
NonEmpty(xs) ==
    IF xs = <<>> THEN <<>>
    ELSE IF Head(xs) = <<>> THEN NonEmpty(Tail(xs))
    ELSE <<Head(xs)>> \o NonEmpty(Tail(xs))

\* s.split(sep) for a one-lexeme separator: always at least one element
RECURSIVE SplitAll(_, _)
SplitAll(s, sep) ==
    IF Contains(s, <<sep>>)
    THEN <<SubSeq(s, 1, Find(s, <<sep>>) - 1)>>
             \o SplitAll(From(s, Find(s, <<sep>>) + 1), sep)
    ELSE <<s>>

\* [l.strip() for l in lines]
RECURSIVE StripEach(_)
StripEach(lines) ==
    IF lines = <<>> THEN <<>>
    ELSE <<Strip(Head(lines))>> \o StripEach(Tail(lines))

\* the last position of lines whose line starts with the marker, 0 if
\* none: the scan without its break
FirstLineStarting_NoBreak(lines, marker) ==
    LET hits == {i \in 1..Len(lines) : StartsWith(lines[i], marker)}
    IN  IF hits = {} THEN 0 ELSE CHOOSE i \in hits : \A j \in hits : j <= i

\* the first position of lines whose line starts with the marker, 0 if none
FirstLineStarting(lines, marker) ==
    LET hits == {i \in 1..Len(lines) : StartsWith(lines[i], marker)}
    IN  IF hits = {} THEN 0 ELSE SetMin(hits)

\* ------------------------------------------------------------------------
\* Python values
\* ------------------------------------------------------------------------

\* Optional[...]: None is <<>>, a value v is <<v>>
None == <<>>
Some(v) == <<v>>

\* the outcome of a call: a returned value, or a raised exception
Return(v) == [exc |-> "", value |-> v]
Raise(e) == [exc |-> e, value |-> <<>>]

\* a float, as sign and decimal mantissa num / 10^scale with no trailing
\* zero in the fraction (1.0, 1 and 1.00 are the same float)
RECURSIVE Normalize(_, _, _)
Normalize(neg, num, scale) ==
    IF scale > 0 /\ num % 10 = 0
    THEN Normalize(neg, num \div 10, scale - 1)
    ELSE [neg |-> neg, num |-> num, scale |-> scale]

\* float(tok): Return(float) for [sign] digits [. digits] and [sign] . digits,
\* Raise("ValueError") for every other token of the alphabet
Float(tok) ==
    LET neg  == tok # <<>> /\ Head(tok) = "-"
        body == IF neg THEN Tail(tok) ELSE tok
        w    == RunLen(body, 1, Digits)
        dot  == w < Len(body) /\ body[w + 1] = "."
        f    == IF dot THEN RunLen(body, w + 2, Digits) ELSE 0
        used == w + (IF dot THEN 1 + f ELSE 0)
    IN  IF used = Len(body) /\ w + f >= 1
        THEN Return(Normalize(neg,
                 ToInt(SubSeq(body, 1, w) \o SubSeq(body, w + 2, w + 1 + f)), f))
        ELSE Raise("ValueError")

\* the try block shared by both parsers:
\*   payload = line.split("Points:", 1)[1].strip()
\*   points = float(payload.split()[0])     except: points = None
PointsOf(line) ==
    LET payload == Strip(SplitOnce(line, <<"Points:">>)[2])
        words   == SplitWords(payload)
    IN  IF words = <<>> THEN None                        \* IndexError
        ELSE IF Float(words[1]).exc # "" THEN None       \* ValueError
        ELSE Some(Float(words[1]).value)

\* ------------------------------------------------------------------------
\* QuizParser
\* ------------------------------------------------------------------------

\* the correctness token "[CORRECT]", as its two lexemes
CorrectToken == <<"[CORRECT", "]">>

\* the set of characters of cl.lstrip("...") at line 143: the three
\* characters U+00E2 U+20AC U+00A2 that the UTF-8 bytes of the bullet
\* U+2022 decode to under cp1252; the bullet itself is not among them
BulletStripChars == {"U+00E2", "U+20AC", "U+00A2"}

\* QuizParser._split_header_and_body with the fallback the other way round:
\* without the marker the whole content is the header
QuizSplitHeaderAndBody_ContentAsHeader(content) ==
    IF Contains(content, <<"Questions:">>)
    THEN LET parts == SplitOnce(content, <<"Questions:">>)
         IN  <<parts[1], LStrip(parts[2], {"\n"})>>
    ELSE <<content, <<>>>>

\* QuizParser._split_header_and_body
QuizSplitHeaderAndBody(content) ==
    IF Contains(content, <<"Questions:">>)
    THEN LET parts == SplitOnce(content, <<"Questions:">>)
         IN  <<parts[1], LStrip(parts[2], {"\n"})>>
    ELSE <<<<>>, content>>

\* Question\s+(\d+): matched at position i of s
QuestionMatchAt(s, i) ==
    LET w == RunLen(s, i + 1, Whitespace)
        d == RunLen(s, i + 1 + w, Digits)
        c == i + 1 + w + d
    IN  [found |-> s[i] = "Question" /\ w >= 1 /\ d >= 1
                      /\ c <= Len(s) /\ s[c] = ":",
         group |-> SubSeq(s, i + 1 + w, c - 1),
         end   |-> c]

\* QUESTION_SPLIT_RE.split(body): [pre, group1, block1, group2, block2, ...]
RECURSIVE QuestionSplit(_)
QuestionSplit(s) ==
    LET ms == {i \in 1..Len(s) : QuestionMatchAt(s, i).found}
    IN  IF ms = {} THEN <<s>>
        ELSE LET m == QuestionMatchAt(s, SetMin(ms))
             IN  <<SubSeq(s, 1, SetMin(ms) - 1), m.group>>
                     \o QuestionSplit(From(s, m.end + 1))

\* the while loops of lines 103-106: drop blank lines at the top and bottom
TrimBlankLines(lines) == RStrip(LStrip(lines, {<<>>}), {<<>>})

\* one choice line of lines 143-152: <<>> when the cleaned text is empty,
\* otherwise the one-element list of the choice
ParseChoice(cl) ==
    LET stripped   == Strip(LStrip(LStrip(cl, BulletStripChars), {"-"}))
        is_correct == Contains(stripped, CorrectToken)
        cleaned    == Strip(Replace(stripped, CorrectToken, <<>>))
    IN  IF cleaned # <<>>
        THEN <<[text |-> cleaned, is_correct |-> is_correct]>>
        ELSE <<>>

RECURSIVE ParseChoices(_)
ParseChoices(choice_lines) ==
    IF choice_lines = <<>> THEN <<>>
    ELSE ParseChoice(Head(choice_lines)) \o ParseChoices(Tail(choice_lines))

\* lines 100-106: the stripped lines of a block, blank ones dropped at both ends
BlockLines(block) == TrimBlankLines(StripEach(SplitLines(block)))

\* lines 132-141 looking for the Answer Choices: line among all the lines
\* of the block, with or without a Points: line before it
ChoiceLinesOf_AnyLine(block) ==
    LET lines  == BlockLines(block)
        ac_idx == FirstLineStarting(lines, <<"Answer Choices:">>)
    IN  IF ac_idx # 0 THEN NonEmpty(From(lines, ac_idx + 1)) ELSE <<>>

\* lines 132-141: the choice candidate lines of a block, [] when the block
\* has no Points: line, nothing after it, or no Answer Choices: line there
ChoiceLinesOf(block) ==
    LET lines      == BlockLines(block)
        points_idx == FirstLineStarting(lines, <<"Points:">>)
        rest       == IF points_idx # 0 THEN From(lines, points_idx + 1)
                      ELSE <<>>
        ac_idx     == FirstLineStarting(rest, <<"Answer Choices:">>)
    IN  IF rest # <<>> /\ ac_idx # 0
        THEN NonEmpty(From(rest, ac_idx + 1))
        ELSE <<>>

\* QuizParser._parse_question_block
ParseQuestionBlock(block) ==
    LET lines      == BlockLines(block)
        points_idx == FirstLineStarting(lines, <<"Points:">>)
        points_val == IF points_idx = 0 THEN None
                      ELSE PointsOf(lines[points_idx])
        q_lines    == IF points_idx # 0
                      THEN NonEmpty(SubSeq(lines, 1, points_idx - 1))
                      ELSE NonEmpty(lines)
    IN  [question |-> Strip(Join(q_lines, <<" ">>)),
         points   |-> points_val,
         choices  |-> ParseChoices(ChoiceLinesOf(block))]

\* the loop of lines 82-95 numbering the questions itself, 1, 2, ..., in
\* place of int(parts[i])
RECURSIVE QuestionsFrom_Renumbered(_, _)
QuestionsFrom_Renumbered(parts, i) ==
    IF i > Len(parts) THEN <<>>
    ELSE LET b == ParseQuestionBlock(parts[i + 1])
         IN  <<[index    |-> i \div 2,
                question |-> b.question,
                points   |-> b.points,
                choices  |-> b.choices]>> \o QuestionsFrom_Renumbered(parts, i + 2)

\* the loop of lines 82-95 over parts[i], parts[i + 1], from position i
RECURSIVE QuestionsFrom(_, _)
QuestionsFrom(parts, i) ==
    IF i > Len(parts) THEN <<>>
    ELSE LET b == ParseQuestionBlock(parts[i + 1])
         IN  <<[index    |-> ToInt(parts[i]),
                question |-> b.question,
                points   |-> b.points,
                choices  |-> b.choices]>> \o QuestionsFrom(parts, i + 2)

\* _parse_questions keeping the first fragment: the text before the first
\* marker, when there is any, makes a question of its own
ParseQuestions_IntroAsQuestion(body) ==
    LET parts == QuestionSplit(body)
        b     == ParseQuestionBlock(parts[1])
    IN  IF Len(parts) <= 1 THEN <<>>
        ELSE (IF Strip(parts[1]) = <<>> THEN <<>>
              ELSE <<[index    |-> 0,
                      question |-> b.question,
                      points   |-> b.points,
                      choices  |-> b.choices]>>) \o QuestionsFrom(parts, 2)

\* QuizParser._parse_questions
ParseQuestions(body) ==
    LET parts == QuestionSplit(body)
    IN  IF Len(parts) <= 1 THEN <<>> ELSE QuestionsFrom(parts, 2)

\* ------------------------------------------------------------------------
\* AssignmentParser
\* ------------------------------------------------------------------------

\* the words of prose of the alphabet
Words == {"Quiz", "T", "Q", "text", "A", "B", "abc", "Cloud", "Storage",
          "PII", "Accident", "Lab", "Assignment", "online_upload", "How",
          "c1", "p1", "e1"}

\* the lexemes made only of characters of the class [A-Za-z0-9 \-] of
\* SCENARIO_SPLIT_RE ("online_upload" has an underscore, the glyphs, the
\* punctuation and the markers ending in a colon are outside it)
NameChars ==
    Digits \cup {" ", "-"} \cup (Words \ {"online_upload"})
        \cup {"Question", "Containment", "Post-Incident Activities"}

DiscussionMarker == <<"Items to discuss with your group:">>
ElevatorMarker == <<"Be prepared to discuss in class (Elevator Pitch style):">>
ContMarker == <<"Containment">>
PostMarker == <<"Post-Incident Activities">>

\* AssignmentParser._split_header_and_body splitting at the last
\* "Description:" (rsplit) in place of the first
AssignmentSplitHeaderAndBody_AtLast(content) ==
    IF Contains(content, <<"Description:">>)
    THEN LET last == CHOOSE i \in Occurrences(content, <<"Description:">>) :
                         \A j \in Occurrences(content, <<"Description:">>) : j <= i
         IN  <<Strip(SubSeq(content, 1, last - 1)),
               LStrip(From(content, last + 1), {"\n"})>>
    ELSE <<<<>>, content>>

\* AssignmentParser._split_header_and_body
AssignmentSplitHeaderAndBody(content) ==
    IF Contains(content, <<"Description:">>)
    THEN LET parts == SplitOnce(content, <<"Description:">>)
         IN  <<Strip(parts[1]), LStrip(parts[2], {"\n"})>>
    ELSE <<<<>>, content>>

\* [t.strip() for t in payload.split(",") if t.strip()]
SubmissionTypesOf(payload) == NonEmpty(StripEach(SplitAll(payload, ",")))

\* the loop of lines 227-238 over the lines of the header, from the state
\* (points, submission_types) reached so far
RECURSIVE HeaderLoop(_, _, _)
HeaderLoop(lines, points, submission_types) ==
    IF lines = <<>>
    THEN [points |-> points, submission_types |-> submission_types]
    ELSE LET line == Strip(Head(lines))
         IN  IF StartsWith(line, <<"Points:">>)
             THEN HeaderLoop(Tail(lines), PointsOf(line), submission_types)
             ELSE IF StartsWith(line, <<"Submission Types:">>)
             THEN LET payload == Strip(SplitOnce(line, <<"Submission Types:">>)[2])
                  IN  HeaderLoop(Tail(lines), points,
                          IF payload # <<>> THEN SubmissionTypesOf(payload)
                          ELSE submission_types)
             ELSE HeaderLoop(Tail(lines), points, submission_types)

\* AssignmentParser._parse_header
ParseHeader(header) ==
    LET r == HeaderLoop(SplitLines(header), None, <<>>)
    IN  [raw_header       |-> header,
         points           |-> r.points,
         submission_types |-> r.submission_types]

\* the names of the scenarios of the example (lines 170, 181, 320)
ExampleNames ==
    {<<"Cloud", " ", "Storage">>, <<"PII", " ", "Accident">>,
     <<"Social", " ", "Media">>, <<"Zero", "-", "Day">>}

\* a heading pattern that lists the names of the example in place of the
\* character class
ScenarioMatchAt_ListedNames(s, i) ==
    LET r == RunLen(s, i, NameChars)
    IN  [found |-> r >= 1 /\ i + r <= Len(s) /\ s[i + r] = "Scenario:"
                      /\ Strip(SubSeq(s, i, i + r - 1)) \in ExampleNames,
         group |-> SubSeq(s, i, i + r - 1),
         end   |-> i + r]

\* ([A-Za-z0-9 \-]+)Scenario: matched at position i of s: a run of one or
\* more lexemes of the class, then "Scenario:".  The colon is outside the
\* class, so the greedy group is the whole run up to the marker.
ScenarioMatchAt(s, i) ==
    LET r == RunLen(s, i, NameChars)
    IN  [found |-> r >= 1 /\ i + r <= Len(s) /\ s[i + r] = "Scenario:",
         group |-> SubSeq(s, i, i + r - 1),
         end   |-> i + r]

\* SCENARIO_SPLIT_RE.split(body): [intro, name1, block1, name2, block2, ...]
RECURSIVE ScenarioSplit(_)
ScenarioSplit(s) ==
    LET ms == {i \in 1..Len(s) : ScenarioMatchAt(s, i).found}
    IN  IF ms = {} THEN <<s>>
        ELSE LET m == ScenarioMatchAt(s, SetMin(ms))
             IN  <<SubSeq(s, 1, SetMin(ms) - 1), m.group>>
                     \o ScenarioSplit(From(s, m.end + 1))

\* lines 290-303 with the two parts of the second split unpacked the wrong
\* way round
SplitContainmentAndPost_Swapped(discussion_text) ==
    IF Contains(discussion_text, ContMarker) /\ Contains(discussion_text, PostMarker)
    THEN LET after_cont == SplitOnce(discussion_text, ContMarker)[2]
             unpacked   == SplitOnce(after_cont, PostMarker)
         IN  IF Len(unpacked) # 2 THEN Raise("ValueError")
             ELSE Return(<<Strip(unpacked[2]), Strip(unpacked[1])>>)
    ELSE Return(<<discussion_text, <<>>>>)

\* lines 290-303: the discussion text split into (containment, post-incident).
\* The second split is unpacked into two names, which raises ValueError when
\* it yields one part: "Post-Incident Activities" occurs in the discussion
\* text, but not after the first "Containment".
SplitContainmentAndPost(discussion_text) ==
    IF Contains(discussion_text, ContMarker) /\ Contains(discussion_text, PostMarker)
    THEN LET after_cont == SplitOnce(discussion_text, ContMarker)[2]
             unpacked   == SplitOnce(after_cont, PostMarker)
         IN  IF Len(unpacked) # 2 THEN Raise("ValueError")
             ELSE Return(<<Strip(unpacked[1]), Strip(unpacked[2])>>)
    ELSE Return(<<discussion_text, <<>>>>)

\* _parse_scenario_block returning the three prompts as lists of lines
\* under a prompts key, the discussion text split as it is now
ParseScenarioBlock_PromptLists(name, block) ==
    LET text == Strip(block)
        hasDiscussion == Contains(text, DiscussionMarker)
        scenario_text ==
            IF hasDiscussion THEN Strip(SplitOnce(text, DiscussionMarker)[1])
            ELSE text
        discussion_and_elevator ==
            IF hasDiscussion THEN Strip(SplitOnce(text, DiscussionMarker)[2])
            ELSE <<>>
        hasElevator == Contains(discussion_and_elevator, ElevatorMarker)
        discussion_text ==
            IF hasElevator
            THEN Strip(SplitOnce(discussion_and_elevator, ElevatorMarker)[1])
            ELSE discussion_and_elevator
        elevator_text ==
            IF hasElevator
            THEN Strip(SplitOnce(discussion_and_elevator, ElevatorMarker)[2])
            ELSE <<>>
        split == SplitContainmentAndPost(discussion_text)
    IN  IF split.exc # ""
        THEN Raise(split.exc)
        ELSE Return([name     |-> name,
                     scenario |-> Join(SplitWords(scenario_text), <<" ">>),
                     prompts  |->
                         [containment    |-> NonEmpty(StripEach(SplitLines(split.value[1]))),
                          post_incident  |-> NonEmpty(StripEach(SplitLines(split.value[2]))),
                          elevator_pitch |-> NonEmpty(StripEach(SplitLines(elevator_text)))]])

\* AssignmentParser._parse_scenario_block
ParseScenarioBlock(name, block) ==
    LET text == Strip(block)
        hasDiscussion == Contains(text, DiscussionMarker)
        scenario_text ==
            IF hasDiscussion THEN Strip(SplitOnce(text, DiscussionMarker)[1])
            ELSE text
        discussion_and_elevator ==
            IF hasDiscussion THEN Strip(SplitOnce(text, DiscussionMarker)[2])
            ELSE <<>>
        hasElevator == Contains(discussion_and_elevator, ElevatorMarker)
        discussion_text ==
            IF hasElevator
            THEN Strip(SplitOnce(discussion_and_elevator, ElevatorMarker)[1])
            ELSE discussion_and_elevator
        elevator_text ==
            IF hasElevator
            THEN Strip(SplitOnce(discussion_and_elevator, ElevatorMarker)[2])
            ELSE <<>>
        split == SplitContainmentAndPost(discussion_text)
    IN  IF split.exc # ""
        THEN Raise(split.exc)
        ELSE Return([name                     |-> name,
                     scenario                 |-> Join(SplitWords(scenario_text), <<" ">>),
                     containment              |-> Strip(split.value[1]),
                     post_incident_activities |-> Strip(split.value[2]),
                     elevator_pitch           |-> Strip(elevator_text)])

\* the loop of lines 258-261 from position i, scenarios being the list
\* appended to so far; an exception of a block ends the loop
RECURSIVE ScenariosFrom(_, _, _)
ScenariosFrom(parts, i, scenarios) ==
    IF i > Len(parts) THEN Return(scenarios)
    ELSE LET b == ParseScenarioBlock(Strip(parts[i]), parts[i + 1])
         IN  IF b.exc # "" THEN Raise(b.exc)
             ELSE ScenariosFrom(parts, i + 2, Append(scenarios, b.value))

\* AssignmentParser._parse_scenarios
ParseScenarios(body) ==
    LET parts == ScenarioSplit(body)
    IN  IF Len(parts) <= 1 THEN Return(<<>>) ELSE ScenariosFrom(parts, 2, <<>>)

\* ------------------------------------------------------------------------
\* json.dump(structured, f, indent=2)
\* ------------------------------------------------------------------------

\* str(d) for a digit value d
DigitChar(d) ==
    CASE d = 0 -> "0" [] d = 1 -> "1" [] d = 2 -> "2" [] d = 3 -> "3"
      [] d = 4 -> "4" [] d = 5 -> "5" [] d = 6 -> "6" [] d = 7 -> "7"
      [] d = 8 -> "8" [] d = 9 -> "9"

\* str(n) for an int n >= 0
RECURSIVE IntToDigits(_)
IntToDigits(n) ==
    IF n < 10 THEN <<DigitChar(n)>>
    ELSE IntToDigits(n \div 10) \o <<DigitChar(n % 10)>>

\* 10 ** k
RECURSIVE Pow10(_)
Pow10(k) == IF k = 0 THEN 1 ELSE 10 * Pow10(k - 1)

\* the digits of n, zero-padded on the left to k digits
RECURSIVE Padded(_, _)
Padded(n, k) ==
    IF k = 0 THEN <<>> ELSE Padded(n \div 10, k - 1) \o <<DigitChar(n % 10)>>

\* one character of a string as the encoder writes it (ensure_ascii): the
\* newline as the two characters \n, a non-ASCII character as \uXXXX
Escaped(c) ==
    CASE c = "\n"     -> "\\n"
      [] c = "U+2022" -> "\\u2022"
      [] c = "U+00E2" -> "\\u00e2"
      [] c = "U+20AC" -> "\\u20ac"
      [] c = "U+00A2" -> "\\u00a2"
      [] OTHER        -> c

\* a str as a JSON string
JsonStr(s) == <<"\"">> \o [i \in 1..Len(s) |-> Escaped(s[i])] \o <<"\"">>

\* str(n) for an int n, which is also how the encoder writes it
IntStr(n) == IF n < 0 THEN <<"-">> \o IntToDigits(-n) ELSE IntToDigits(n)

\* a float as a JSON number: float.__repr__, which always has a fraction
JsonFloat(f) ==
    (IF f.neg THEN <<"-">> ELSE <<>>)
        \o IntToDigits(f.num \div Pow10(f.scale)) \o <<".">>
        \o (IF f.scale = 0 THEN <<"0">>
            ELSE Padded(f.num % Pow10(f.scale), f.scale))

\* an Optional[float]: None is null
JsonPoints(p) == IF p = None THEN <<"null">> ELSE JsonFloat(p[1])

JsonBool(b) == IF b THEN <<"true">> ELSE <<"false">>

\* the newline and the indentation that start a line at a nesting level
Indent(level) == <<"\n">> \o [i \in 1..(2 * level) |-> " "]

\* the items of a container, one per line at level + 1, separated by commas
RECURSIVE JsonItems(_, _)
JsonItems(items, level) ==
    IF items = <<>> THEN <<>>
    ELSE Indent(level + 1) \o Head(items)
             \o (IF Len(items) > 1 THEN <<",">> ELSE <<>>)
             \o JsonItems(Tail(items), level)

\* a list, given its encoded items: [] when empty
JsonArray(items, level) ==
    IF items = <<>> THEN <<"[", "]">>
    ELSE <<"[">> \o JsonItems(items, level) \o Indent(level) \o <<"]">>

\* a dict, given its keys in insertion order and its encoded values
JsonObject(keys, values, level) ==
    <<"{">>
        \o JsonItems([i \in 1..Len(keys) |->
                         <<"\"", keys[i], "\"", ":", " ">> \o values[i]], level)
        \o Indent(level) \o <<"}">>

\* the dict of a choice (lines 148-151)
JsonChoice(c, level) ==
    JsonObject(<<"text", "is_correct">>,
               <<JsonStr(c.text), JsonBool(c.is_correct)>>, level)

\* the dict of a question (lines 89-94)
JsonQuestion(q, level) ==
    JsonObject(<<"index", "question", "points", "choices">>,
               <<IntStr(q.index), JsonStr(q.question), JsonPoints(q.points),
                 JsonArray([j \in 1..Len(q.choices) |->
                               JsonChoice(q.choices[j], level + 2)], level + 1)>>,
               level)

\* the dict QuizParser.parse returns (lines 45-52)
JsonQuiz(r) ==
    JsonObject(<<"quiz_id", "title", "meta", "questions">>,
               <<IntStr(r.quiz_id), JsonStr(r.title),
                 JsonObject(<<"raw_header">>, <<JsonStr(r.meta.raw_header)>>, 1),
                 JsonArray([k \in 1..Len(r.questions) |->
                               JsonQuestion(r.questions[k], 2)], 1)>>,
               0)

\* the dict of a scenario (lines 305-311)
JsonScenario(sc, level) ==
    JsonObject(<<"name", "scenario", "containment", "post_incident_activities",
                 "elevator_pitch">>,
               <<JsonStr(sc.name), JsonStr(sc.scenario), JsonStr(sc.containment),
                 JsonStr(sc.post_incident_activities), JsonStr(sc.elevator_pitch)>>,
               level)

\* the dict _parse_header returns (lines 240-244)
JsonMeta(m, level) ==
    JsonObject(<<"raw_header", "points", "submission_types">>,
               <<JsonStr(m.raw_header), JsonPoints(m.points),
                 JsonArray([i \in 1..Len(m.submission_types) |->
                               JsonStr(m.submission_types[i])], level + 1)>>,
               level)

\* the dict AssignmentParser.parse returns (lines 198-203)
JsonAssignment(r) ==
    JsonObject(<<"assignment_id", "title", "meta", "scenarios">>,
               <<IntStr(r.assignment_id), JsonStr(r.title), JsonMeta(r.meta, 1),
                 JsonArray([k \in 1..Len(r.scenarios) |->
                               JsonScenario(r.scenarios[k], 2)], 1)>>,
               0)

\* json.dump(structured, f, indent=2): the text written for the dict of
\* either parser
JsonDump(structured) ==
    IF "quiz_id" \in DOMAIN structured THEN JsonQuiz(structured)
    ELSE JsonAssignment(structured)

\* the message save() prints: the one of QuizParser (line 61) when the dict
\* is a quiz's, else the one of AssignmentParser (line 209)
SavedMessage(type, path) ==
    IF type = "quiz"
    THEN <<"[QuizParser] Saved structured quiz JSON to: ", path>>
    ELSE <<"[AssignmentParser] Saved structured assignment JSON to: ", path>>

\* ------------------------------------------------------------------------
\* LLM.normalize_chunk
\* ------------------------------------------------------------------------

\* repr(s) of a str without quote characters: in single quotes, the
\* newline as the two characters \n
ReprStr(s) ==
    <<"'">> \o [i \in 1..Len(s) |-> IF s[i] = "\n" THEN "\\n" ELSE s[i]]
            \o <<"'">>

\* the keys of a scenario dict, in insertion order (lines 305-311)
ScenarioKeys ==
    <<"name", "scenario", "containment", "post_incident_activities",
      "elevator_pitch">>

\* 'key': repr(value), ... for the keys from position i on
RECURSIVE ReprPairs(_, _)
ReprPairs(chunk, i) ==
    IF i > Len(ScenarioKeys) THEN <<>>
    ELSE <<"'", ScenarioKeys[i], "'", ":", " ">> \o ReprStr(chunk[ScenarioKeys[i]])
             \o (IF i < Len(ScenarioKeys) THEN <<",", " ">> ELSE <<>>)
             \o ReprPairs(chunk, i + 1)

\* str(chunk) for a scenario dict
StrOfChunk(chunk) == <<"{">> \o ReprPairs(chunk, 1) \o <<"}">>

\* "\n".join(f"- {c['text']}" for c in chunk["choices"])
ChoiceBullets(choices) ==
    Join([j \in 1..Len(choices) |-> <<"-", " ">> \o choices[j].text], <<"\n">>)

\* normalize_chunk with a third test added, for a dict that has a name
NormalizeChunk_NameAsTitle(chunk) ==
    IF {"chunk_id", "text"} \subseteq DOMAIN chunk
    THEN <<chunk.text,
           IF "section_title" \in DOMAIN chunk THEN chunk.section_title
           ELSE <<"Chunk", " ">> \o IntStr(chunk.chunk_id),
           chunk.chunk_id>>
    ELSE IF {"index", "question"} \subseteq DOMAIN chunk
    THEN <<<<"Question", ":", " ">> \o chunk.question
               \o (IF "choices" \in DOMAIN chunk
                   THEN <<"\n", "\n", "Answer Choices:", "\n">>
                            \o ChoiceBullets(chunk.choices)
                   ELSE <<>>),
           <<"Quiz", " ", "Question", " ">> \o IntStr(chunk.index),
           chunk.index>>
    ELSE IF "name" \in DOMAIN chunk
    THEN <<StrOfChunk(chunk), chunk.name, -1>>
    ELSE <<StrOfChunk(chunk), <<"Unknown">>, -1>>

\* normalize_chunk: (text_to_analyze, section_title, chunk_id)
NormalizeChunk(chunk) ==
    IF {"chunk_id", "text"} \subseteq DOMAIN chunk
    THEN <<chunk.text,
           IF "section_title" \in DOMAIN chunk THEN chunk.section_title
           ELSE <<"Chunk", " ">> \o IntStr(chunk.chunk_id),
           chunk.chunk_id>>
    ELSE IF {"index", "question"} \subseteq DOMAIN chunk
    THEN <<<<"Question", ":", " ">> \o chunk.question
               \o (IF "choices" \in DOMAIN chunk
                   THEN <<"\n", "\n", "Answer Choices:", "\n">>
                            \o ChoiceBullets(chunk.choices)
                   ELSE <<>>),
           <<"Quiz", " ", "Question", " ">> \o IntStr(chunk.index),
           chunk.index>>
    ELSE <<StrOfChunk(chunk), <<"Unknown">>, -1>>

\* ------------------------------------------------------------------------
\* The input records (assignment_data)
\* ------------------------------------------------------------------------

\* how many fragments a free-form quiz body has at most
MaxFrags == 3
\* how many choice lines follow the Answer Choices: line at most
MaxChoices == 2
\* how many marked parts a scenario block has at most
MaxSections == 4

\* "".join(parts)
Concat(parts) == Join(parts, <<>>)

\* the lists of at most n elements of S
ListsUpTo(S, n) == UNION {[1..k -> S] : k \in 0..n}

\* what a quiz content starts with: nothing, the title line, the title line and the body marker (canvasreader.py lines 45, 62)
QuizPrefixes ==
    {<<>>,
     <<"Quiz", ":", " ", "T", "\n", "\n">>,
     <<"Quiz", ":", " ", "T", "\n", "\n", "Questions:", "\n", "\n">>}

\* the pieces a free-form quiz body is made of
QuizFragments ==
    {<<"Question", " ", "1", ":", "\n">>,
     <<"Question", " ", "2", ":", "\n">>,
     <<"Q", " ", "text", "\n">>,
     <<"Points:", " ", "1", ".", "0", "\n">>,
     <<"Questions:", "\n">>,
     <<"\n", "Answer Choices:", "\n", "-", " ", "A", "\n">>}

\* the content get_all_quizzes writes up to the first question's text
QuestionStem ==
    <<"Quiz", ":", " ", "T", "\n", "\n", "Questions:", "\n", "\n", "Question", " ", "1", ":", "\n", "Q", " ", "text", "\n">>

\* what follows the question text: no Points: line, a number, a word, no token
PointsLines ==
    {<<>>,
     <<"Points:", " ", "1", ".", "0", "\n">>,
     <<"Points:", " ", "abc", "\n">>,
     <<"Points:", "\n">>}

\* the Answer Choices: line, absent or present
AnswerHeads ==
    {<<>>,
     <<"\n", "Answer Choices:", "\n">>}

\* choice lines: with the bullet U+2022 the producer writes, a hyphen, the mis-decoded bullet, a token nested in a token, a token alone, a blank line
ChoiceLines ==
    {<<" ", " ", "U+2022", " ", "A", " ", "[CORRECT", "]", "\n">>,
     <<" ", " ", "U+2022", " ", "B", "\n">>,
     <<"-", " ", "A", "\n">>,
     <<"U+00E2", "U+20AC", "U+00A2", " ", "B", " ", "[CORRECT", "]", "\n">>,
     <<"[CORRECT", "[CORRECT", "]", "]", " ", "A", "\n">>,
     <<"-", " ", "[CORRECT", "]", "\n">>,
     <<"\n">>}

\* what can stand between the first line of the question text and the
\* Points: line: nothing, or a blank line and an indented second line
MoreText ==
    {<<>>,
     <<"\n", " ", " ", "A", " ", "\n">>}

\* first Points: lines: a number, a word, no token, no space before the
\* number, a number and a word, a negative integer, a number with no digit
\* after or before the point, an indented line, and a line that has
\* "Points:" in it without starting with it
PointsVariants ==
    {<<"Points:", " ", "1", ".", "0", "\n">>,
     <<"Points:", " ", "abc", "\n">>,
     <<"Points:", "\n">>,
     <<"Points:", "1", ".", "0", "\n">>,
     <<"Points:", " ", "2", ".", "5", " ", "abc", "\n">>,
     <<"Points:", " ", "-", "1", "\n">>,
     <<"Points:", " ", "1", ".", "\n">>,
     <<"Points:", " ", ".", "5", "\n">>,
     <<" ", " ", "Points:", " ", "3", "\n">>,
     <<"Q", " ", "Points:", " ", "1", "\n">>}

\* what follows the first Points: line: nothing, a second Points: line, a
\* line of text and a second Points: line
LaterLines ==
    {<<>>,
     <<"Points:", " ", "2", "\n">>,
     <<"text", "\n", "Points:", " ", "2", "\n">>}

\* the header get_all_assignments writes, up to the body marker
AssignmentStem ==
    <<"Assignment", ":", " ", "T", "\n", "\n", "Points:", " ", "1", "0", "0", ".", "0", "\n", "Submission Types:", " ", "online_upload", "\n", "\n", "Description:", "\n">>

\* scenario headings: one of the example, one that is not, one with no name
Headings ==
    {<<"Cloud", " ", "Storage", "Scenario:">>,
     <<"Lab", " ", "2", "Scenario:">>,
     <<"Scenario:">>}

Narrative ==
    <<"How", "?", "\n">>

\* the marked parts of a scenario block, each with its text
SectionFragments ==
    {<<"Items to discuss with your group:", "\n">>,
     <<"Containment", "\n", "\n", "c1", "\n", "\n">>,
     <<"Post-Incident Activities", "\n", "\n", "p1", "\n", "\n">>,
     <<"Be prepared to discuss in class (Elevator Pitch style):", "\n", "\n", "e1", "\n", "\n">>}

\* what follows the first scenario: nothing, or a second scenario
Tails ==
    {<<>>,
     <<"PII", " ", "Accident", "Scenario:", "How", "?", "\n">>}

\* what an assignment content starts with
AssignmentPrefixes ==
    {<<>>,
     <<"Assignment", ":", " ", "T", "\n", "\n", "Points:", " ", "1", "0", "0", ".", "0", "\n", "Submission Types:", " ", "online_upload", "\n", "\n", "Description:", "\n">>,
     <<"Description:">>,
     <<" ", "\n", "Description:", "\n", "\n">>}

\* short assignment bodies, one with a second body marker
AssignmentBodies ==
    {<<>>,
     <<"Cloud", " ", "Storage", "Scenario:", "How", "?", "\n">>,
     <<"T", "\n", "Description:", "\n", "Lab", " ", "2", "Scenario:", "How", "?", "\n">>}

\* titles, one with surrounding whitespace
Titles ==
    {<<"T">>,
     <<" ", "T", "\n">>}


\* quiz contents: free-form bodies after a prefix
FreeQuizContents ==
    {p \o Concat(fs) : p \in QuizPrefixes, fs \in ListsUpTo(QuizFragments, MaxFrags)}

\* quiz contents: one question as get_all_quizzes lays it out, with each
\* part present, absent or malformed
OneQuestionContents ==
    {QuestionStem \o pl \o ah \o Concat(cs) \o <<"\n">> :
        pl \in PointsLines, ah \in AnswerHeads,
        cs \in ListsUpTo(ChoiceLines, MaxChoices)}

\* quiz contents: one question whose Points: line takes each form, with or
\* without a second one
PointsContents ==
    {QuestionStem \o mt \o pv \o ll \o <<"\n">> :
        mt \in MoreText, pv \in PointsVariants, ll \in LaterLines}

\* assignment contents: a scenario whose marked parts come in any order,
\* any number of times, or not at all
ScenarioContents ==
    {AssignmentStem \o h \o Narrative \o Concat(ps) \o t :
        h \in Headings, ps \in ListsUpTo(SectionFragments, MaxSections),
        t \in Tails}

\* assignment contents: what precedes the body varies
HeaderContents ==
    {p \o b : p \in AssignmentPrefixes, b \in AssignmentBodies}

\* a dict with the keys of fields whose value is present (a one-element
\* list), and no key for a field whose value is <<>>
Dict(type, id, title, content) ==
    [k \in {"type"} \cup (IF id = <<>> THEN {} ELSE {"id"})
              \cup (IF title = <<>> THEN {} ELSE {"title"})
              \cup (IF content = <<>> THEN {} ELSE {"content"}) |->
        CASE k = "type" -> type
          [] k = "id" -> id[1]
          [] k = "title" -> title[1]
          [] k = "content" -> content[1]]

\* the id of the records: the one of the docstring's example
ItemId == 155647

\* records with every key, as the reader produces them (canvasreader.py
\* lines 83-88, 120-125)
QuizItems ==
    {Dict("quiz", <<ItemId>>, <<(<<"T">>)>>, <<c>>) :
        c \in FreeQuizContents \cup OneQuestionContents \cup PointsContents}

AssignmentItems ==
    {Dict("assignment", <<ItemId>>, <<(<<"T">>)>>, <<c>>) :
        c \in ScenarioContents \cup HeaderContents}

\* records of either type with any of id, title and content missing
PartialItems ==
    {Dict(ty, id, ti, c) :
        ty \in {"quiz", "assignment"},
        id \in {<<>>, <<ItemId>>},
        ti \in {<<>>} \cup {<<t>> : t \in Titles},
        c  \in {<<>>, <<QuestionStem>>,
                <<AssignmentStem \o <<"Cloud", " ", "Storage", "Scenario:">>
                      \o Narrative>>}}

\* ------------------------------------------------------------------------
\* parse(), step by step, and its callers
\* ------------------------------------------------------------------------

VARIABLES
    data,        \* self.data, the record given to the constructor
    pc,          \* where parse() is: "start", "split", "parse", "returned", "raised"
    item_id,     \* the local quiz_id / assignment_id
    title,       \* the local title
    content,     \* the local content
    header,      \* the local header
    body,        \* the local body
    result,      \* <<>> until parse() returns, then <<the returned dict>>
    exc,         \* "" until parse() raises, then the exception's type
    previous,    \* the outcomes of the earlier calls of parse() on this parser
    save_pc,     \* where save() is: "idle", "call", "dump", "print", "returned", "raised"
    save_exc,    \* "" until save() raises, then the exception's type
    file,        \* the file at path: None when there is none, else <<its text>>
    stdout,      \* the lines printed so far
    forecast_pc, \* where forecast() is: "idle", "parse", "analyze", "returned", "raised"
    normalized,  \* what normalize_chunk returned for the chunks analyzed so far
    result_list  \* the local result_list of analyze_all_chunks

vars == <<data, pc, item_id, title, content, header, body, result, exc,
          previous, save_pc, save_exc, file, stdout, forecast_pc, normalized,
          result_list>>

\* what the callers of parse() hold: parse() itself touches none of it
callers == <<previous, save_pc, save_exc, file, stdout, forecast_pc,
             normalized, result_list>>

\* self.data[key] written as self.data.get(key, 0): a missing key is
\* defaulted
Lookup_Defaulting(d, key) ==
    Return(IF key \in DOMAIN d THEN d[key] ELSE 0)

\* self.data[key]
Lookup(d, key) ==
    IF key \in DOMAIN d THEN Return(d[key]) ELSE Raise("KeyError")

\* self.data.get(key, default)
Get(d, key, default) == IF key \in DOMAIN d THEN d[key] ELSE default

\* the dict after d.setdefault(key, default): a missing key is added
AfterGet_SetDefault(d, key, default) ==
    [k \in DOMAIN d \cup {key} |-> IF k \in DOMAIN d THEN d[k] ELSE default]

\* the dict after d.get(key, default): as it was
AfterGet(d, key, default) == d

\* the locals of parse() before its first statement
FreshLocals ==
    /\ pc = "start"
    /\ item_id = 0
    /\ title = <<>>
    /\ content = <<>>
    /\ header = <<>>
    /\ body = <<>>
    /\ result = <<>>
    /\ exc = ""

\* no caller but the one that calls parse()
NoCaller ==
    /\ previous = <<>>
    /\ save_pc = "idle"
    /\ save_exc = ""
    /\ file = None
    /\ stdout = <<>>
    /\ forecast_pc = "idle"
    /\ normalized = <<>>
    /\ result_list = <<>>

\* __init__ of either parser: the constructor only stores the record
Init ==
    /\ data \in QuizItems \cup AssignmentItems \cup PartialItems
    /\ FreshLocals
    /\ NoCaller

\* lines 38-40 and 190-192, the same in both parsers: the three lookups
ReadFields ==
    /\ pc = "start"
    /\ \/ /\ Lookup(data, "id").exc # ""
          /\ exc' = Lookup(data, "id").exc
          /\ pc' = "raised"
          /\ UNCHANGED <<data, item_id, title, content>>
       \/ /\ Lookup(data, "id").exc = ""
          /\ item_id' = Lookup(data, "id").value
          /\ title' = Strip(Get(data, "title", <<>>))
          /\ content' = Get(data, "content", <<>>)
          /\ data' = AfterGet(AfterGet(data, "title", <<>>), "content", <<>>)
          /\ pc' = "split"
          /\ exc' = exc
    /\ UNCHANGED <<header, body, result>>
    /\ UNCHANGED callers

\* QuizParser.parse, lines 38-40
QuizParse_ReadFields == data.type = "quiz" /\ ReadFields

\* QuizParser.parse, line 42
QuizParse_Split ==
    /\ data.type = "quiz"
    /\ pc = "split"
    /\ header' = QuizSplitHeaderAndBody(content)[1]
    /\ body' = QuizSplitHeaderAndBody(content)[2]
    /\ pc' = "parse"
    /\ UNCHANGED <<data, item_id, title, content, result, exc>>
    /\ UNCHANGED callers

\* QuizParser.parse, lines 43-52
QuizParse_Return ==
    /\ data.type = "quiz"
    /\ pc = "parse"
    /\ result' = <<[quiz_id   |-> item_id,
                    title     |-> title,
                    meta      |-> [raw_header |-> Strip(header)],
                    questions |-> ParseQuestions(body)]>>
    /\ pc' = "returned"
    /\ UNCHANGED <<data, item_id, title, content, header, body, exc>>
    /\ UNCHANGED callers

\* AssignmentParser.parse, lines 190-192
AssignmentParse_ReadFields == data.type = "assignment" /\ ReadFields

\* AssignmentParser.parse, line 194
AssignmentParse_Split ==
    /\ data.type = "assignment"
    /\ pc = "split"
    /\ header' = AssignmentSplitHeaderAndBody(content)[1]
    /\ body' = AssignmentSplitHeaderAndBody(content)[2]
    /\ pc' = "parse"
    /\ UNCHANGED <<data, item_id, title, content, result, exc>>
    /\ UNCHANGED callers

\* AssignmentParser.parse, lines 195-203: an exception of _parse_scenarios
\* leaves parse() with no value returned
AssignmentParse_Return ==
    /\ data.type = "assignment"
    /\ pc = "parse"
    /\ \/ /\ ParseScenarios(body).exc # ""
          /\ exc' = ParseScenarios(body).exc
          /\ pc' = "raised"
          /\ result' = result
       \/ /\ ParseScenarios(body).exc = ""
          /\ result' = <<[assignment_id |-> item_id,
                          title         |-> title,
                          meta          |-> ParseHeader(header),
                          scenarios     |-> ParseScenarios(body).value]>>
          /\ pc' = "returned"
          /\ exc' = exc
    /\ UNCHANGED <<data, item_id, title, content, header, body>>
    /\ UNCHANGED callers

Next ==
    \/ QuizParse_ReadFields
    \/ QuizParse_Split
    \/ QuizParse_Return
    \/ AssignmentParse_ReadFields
    \/ AssignmentParse_Split
    \/ AssignmentParse_Return

Spec == Init /\ [][Next]_vars

\* ------------------------------------------------------------------------
\* parse() called again on the same parser
\* ------------------------------------------------------------------------

\* how many times parse() is called on one parser at most
MaxCalls == 2

\* the next call of parse() on the parser, after one that returned or
\* raised (lines 324 and 328: save() calls parse() on a parser whose parse()
\* was already called): the locals are new, self.data is the parser's
ParseAgain ==
    /\ pc \in {"returned", "raised"}
    /\ Len(previous) + 1 < MaxCalls
    /\ previous' = Append(previous, [result |-> result, exc |-> exc])
    /\ pc' = "start"
    /\ item_id' = 0
    /\ title' = <<>>
    /\ content' = <<>>
    /\ header' = <<>>
    /\ body' = <<>>
    /\ result' = <<>>
    /\ exc' = ""
    /\ UNCHANGED <<data, save_pc, save_exc, file, stdout, forecast_pc,
                   normalized, result_list>>

NextTwice ==
    \/ QuizParse_ReadFields
    \/ QuizParse_Split
    \/ QuizParse_Return
    \/ AssignmentParse_ReadFields
    \/ AssignmentParse_Split
    \/ AssignmentParse_Return
    \/ ParseAgain

TwiceSpec == Init /\ [][NextTwice]_vars

\* ------------------------------------------------------------------------
\* save(path)
\* ------------------------------------------------------------------------

\* the path given to save() (line 328)
Path == "parsed_assignment.json"

\* what a file already at path holds
OldText == <<"old">>

\* how many places a failed write can stop at
MaxStops == 2

\* the texts a file can hold after a write of text that failed: text is
\* written piece by piece, so any proper prefix of it; here those of
\* MaxStops evenly spaced lengths
PartialWrites(text) ==
    {SubSeq(text, 1, (k * Len(text)) \div MaxStops) : k \in 0..(MaxStops - 1)}

\* save() is called on a parser just constructed; there is a file at path
\* or there is none
SaveInit ==
    /\ data \in QuizItems \cup AssignmentItems \cup PartialItems
    /\ FreshLocals
    /\ previous = <<>>
    /\ save_pc = "call"
    /\ save_exc = ""
    /\ file \in {None, Some(OldText)}
    /\ stdout = <<>>
    /\ forecast_pc = "idle"
    /\ normalized = <<>>
    /\ result_list = <<>>

\* lines 58 and 206: parse() raised, and so does save()
Save_ParseRaised ==
    /\ save_pc = "call"
    /\ pc = "raised"
    /\ save_exc' = exc
    /\ save_pc' = "raised"
    /\ UNCHANGED <<data, pc, item_id, title, content, header, body, result, exc,
                   previous, file, stdout, forecast_pc, normalized, result_list>>

\* save() opening the destination first: open(path, "w") before
\* self.parse() has begun, the rest as it is
Save_Open_BeforeParse ==
    /\ save_pc = "call"
    /\ \/ /\ pc = "start"
          /\ file # Some(<<>>)
          /\ file' = Some(<<>>)
          /\ UNCHANGED <<save_pc, save_exc>>
       \/ /\ pc = "returned"
          /\ file' = Some(<<>>)
          /\ save_pc' = "dump"
          /\ save_exc' = save_exc
    /\ UNCHANGED <<data, pc, item_id, title, content, header, body, result, exc,
                   previous, stdout, forecast_pc, normalized, result_list>>

\* lines 59 and 207, open(path, "w") once parse() has returned: it raises
\* and the file is as it was, or the file is there and empty
Save_Open ==
    /\ save_pc = "call"
    /\ pc = "returned"
    /\ \/ /\ save_exc' = "OSError"
          /\ save_pc' = "raised"
          /\ file' = file
       \/ /\ file' = Some(<<>>)
          /\ save_pc' = "dump"
          /\ save_exc' = save_exc
    /\ UNCHANGED <<data, pc, item_id, title, content, header, body, result, exc,
                   previous, stdout, forecast_pc, normalized, result_list>>

\* lines 60 and 208, json.dump and the close of the with block: the text
\* is written, or a write fails part-way and the exception leaves save()
Save_Dump ==
    /\ save_pc = "dump"
    /\ \/ /\ file' = Some(JsonDump(result[1]))
          /\ save_pc' = "print"
          /\ save_exc' = save_exc
       \/ /\ \E text \in PartialWrites(JsonDump(result[1])) : file' = Some(text)
          /\ save_exc' = "OSError"
          /\ save_pc' = "raised"
    /\ UNCHANGED <<data, pc, item_id, title, content, header, body, result, exc,
                   previous, stdout, forecast_pc, normalized, result_list>>

\* lines 61 and 209: the message
Save_Print ==
    /\ save_pc = "print"
    /\ stdout' = Append(stdout, SavedMessage(data.type, Path))
    /\ save_pc' = "returned"
    /\ UNCHANGED <<data, pc, item_id, title, content, header, body, result, exc,
                   previous, save_exc, file, forecast_pc, normalized, result_list>>

NextSave ==
    \/ QuizParse_ReadFields
    \/ QuizParse_Split
    \/ QuizParse_Return
    \/ AssignmentParse_ReadFields
    \/ AssignmentParse_Split
    \/ AssignmentParse_Return
    \/ Save_ParseRaised
    \/ Save_Open
    \/ Save_Dump
    \/ Save_Print

SaveSpec == SaveInit /\ [][NextSave]_vars

\* ------------------------------------------------------------------------
\* server.forecast, the assignment branch
\* ------------------------------------------------------------------------

\* the record read from assignment.json (server.py lines 66-71): any
\* assignment record
ForecastInit ==
    /\ data \in {d \in AssignmentItems \cup PartialItems : d.type = "assignment"}
    /\ FreshLocals
    /\ previous = <<>>
    /\ save_pc = "idle"
    /\ save_exc = ""
    /\ file = None
    /\ stdout = <<>>
    /\ forecast_pc = "parse"
    /\ normalized = <<>>
    /\ result_list = <<>>

\* server.py lines 78-79: embedder.parse() has raised, and so does the
\* handler; else data["scenarios"] is handed to analyze_all_chunks
Forecast_Parsed ==
    /\ forecast_pc = "parse"
    /\ pc \in {"returned", "raised"}
    /\ forecast_pc' = IF pc = "raised" THEN "raised" ELSE "analyze"
    /\ UNCHANGED <<data, pc, item_id, title, content, header, body, result, exc,
                   previous, save_pc, save_exc, file, stdout, normalized,
                   result_list>>

\* LLM.py lines 52-55, one turn of the loop: analyze_chunk normalizes the
\* next chunk and asks the model, whose answer has an FAQ (the result is
\* appended), has none (the chunk is skipped) or is an exception
Forecast_AnalyzeChunk ==
    /\ forecast_pc = "analyze"
    /\ Len(normalized) < Len(result[1].scenarios)
    /\ LET n == NormalizeChunk(result[1].scenarios[Len(normalized) + 1])
       IN  /\ normalized' = Append(normalized, n)
           /\ \/ /\ result_list' = Append(result_list,
                                       [section_title |-> n[2], faq |-> "faq"])
                 /\ forecast_pc' = forecast_pc
              \/ /\ result_list' = result_list
                 /\ forecast_pc' = forecast_pc
              \/ /\ result_list' = result_list
                 /\ forecast_pc' = "raised"
    /\ UNCHANGED <<data, pc, item_id, title, content, header, body, result, exc,
                   previous, save_pc, save_exc, file, stdout>>

\* LLM.py lines 57-67 and server.py line 85: the loop is over
Forecast_Return ==
    /\ forecast_pc = "analyze"
    /\ Len(normalized) = Len(result[1].scenarios)
    /\ forecast_pc' = "returned"
    /\ UNCHANGED <<data, pc, item_id, title, content, header, body, result, exc,
                   previous, save_pc, save_exc, file, stdout, normalized,
                   result_list>>

NextForecast ==
    \/ AssignmentParse_ReadFields
    \/ AssignmentParse_Split
    \/ AssignmentParse_Return
    \/ Forecast_Parsed
    \/ Forecast_AnalyzeChunk
    \/ Forecast_Return

ForecastSpec == ForecastInit /\ [][NextForecast]_vars

\* ------------------------------------------------------------------------
\* Properties
\* ------------------------------------------------------------------------

Finished == pc \in {"returned", "raised"}

IsQuiz == data.type = "quiz"
IsAssignment == data.type = "assignment"

\* the content parse() works on: the record's, or the default ""
GivenContent == Get(data, "content", <<>>)

\* the elements of a finite set of integers, in increasing order
RECURSIVE Ascending(_)
Ascending(S) ==
    IF S = {} THEN <<>> ELSE <<SetMin(S)>> \o Ascending(S \ {SetMin(S)})

\* the positions of s where a "Question <N>:" marker starts
QuestionMarkers(s) == {i \in 1..Len(s) : QuestionMatchAt(s, i).found}

\* the blocks a body is segmented into: parts[3], parts[5], ...
BlocksOf(parts) == [k \in 1..((Len(parts) - 1) \div 2) |-> parts[2 * k + 1]]

\* the discussion region of a scenario block: what follows the first
\* "Items to discuss with your group:", up to the elevator-pitch marker
DiscussionOf(block) ==
    LET text  == Strip(block)
        after == IF Contains(text, DiscussionMarker)
                 THEN Strip(SplitOnce(text, DiscussionMarker)[2]) ELSE <<>>
    IN  IF Contains(after, ElevatorMarker)
        THEN Strip(SplitOnce(after, ElevatorMarker)[1]) ELSE after

\* "Post-Incident Activities" comes before "Containment" and not after it
PostBeforeContainment(d) ==
    /\ Contains(d, ContMarker)
    /\ Contains(d, PostMarker)
    /\ \A i \in Occurrences(d, PostMarker) : i < Find(d, ContMarker)

\* C1: a record that carries an id, whatever its content, is parsed by
\* either parser into a structured record: parse() never raises.
C1_NeverRaises ==
    (Finished /\ "id" \in DOMAIN data) => (pc = "returned" /\ exc = "")

\* C2: when the discussion region of a scenario block has "Post-Incident
\* Activities" before "Containment" and not after it, parse() returns, and
\* that section has an empty post-incident text and the whole discussion
\* text in containment.
C2_ReorderedFallsBack ==
    (Finished /\ IsAssignment /\ "id" \in DOMAIN data) =>
        LET blocks == BlocksOf(ScenarioSplit(body))
        IN  \A k \in 1..Len(blocks) :
                PostBeforeContainment(DiscussionOf(blocks[k])) =>
                    /\ pc = "returned"
                    /\ result[1].scenarios[k].post_incident_activities = <<>>
                    /\ result[1].scenarios[k].containment = DiscussionOf(blocks[k])

\* C3 as stated: a quiz content without "Questions:" parses to no questions
\* and a raw_header that is the trimmed content.
C3_NoMarkerContentIsHeader ==
    (Finished /\ IsQuiz /\ "id" \in DOMAIN data
        /\ ~Contains(GivenContent, <<"Questions:">>)) =>
            /\ pc = "returned"
            /\ result[1].questions = <<>>
            /\ result[1].meta.raw_header = Strip(GivenContent)

\* C3 amended: a quiz content without "Questions:" is parsed without
\* raising, its raw_header is empty (the whole content is the body) and it
\* has one question per "Question <N>:" marker of the content.
C3_NoMarkerContentIsBody ==
    (Finished /\ IsQuiz /\ "id" \in DOMAIN data
        /\ ~Contains(GivenContent, <<"Questions:">>)) =>
            /\ pc = "returned"
            /\ result[1].meta.raw_header = <<>>
            /\ Len(result[1].questions) = Cardinality(QuestionMarkers(GivenContent))

\* a content without "Questions:" that has questions all the same
C3_Witness ==
    /\ pc = "returned"
    /\ IsQuiz
    /\ ~Contains(GivenContent, <<"Questions:">>)
    /\ GivenContent # <<>>
    /\ result[1].meta.raw_header = <<>>
    /\ Len(result[1].questions) = 2

\* the choice candidate lines of a block that yield a choice: the others
\* have no text left after cleaning and are dropped
KeptCandidates(block) ==
    SelectSeq(ChoiceLinesOf(block), LAMBDA cl : ParseChoice(cl) # <<>>)

\* the blocks of the questions of the body, in order
QuestionBlocks == BlocksOf(QuestionSplit(body))

\* C4: the choice produced from a candidate line is correct exactly when
\* the line contains the token "[CORRECT]", and the text of a produced
\* choice never contains the token.
C4_TokenRoundTrip ==
    (pc = "returned" /\ IsQuiz) =>
        \A k \in 1..Len(QuestionBlocks) :
            LET cands   == KeptCandidates(QuestionBlocks[k])
                choices == result[1].questions[k].choices
            IN  /\ Len(choices) = Len(cands)
                /\ \A j \in 1..Len(cands) :
                      /\ choices[j].is_correct = Contains(cands[j], CorrectToken)
                      /\ ~Contains(choices[j].text, CorrectToken)

\* the bullet get_all_quizzes writes before each answer (canvasreader.py
\* line 76), and the three characters it reads as when mis-decoded
BulletGlyph == "U+2022"
MisdecodedBullet == <<"U+00E2", "U+20AC", "U+00A2">>

BeginsWithBullet(line) ==
    \/ StartsWith(line, <<BulletGlyph>>)
    \/ StartsWith(line, <<"-">>)
    \/ StartsWith(line, MisdecodedBullet)

\* the content of the spec's first scenario, as the producer writes it
ScenarioOneContent ==
    QuestionStem \o <<"Points:", " ", "1", ".", "0", "\n">>
        \o <<"\n", "Answer Choices:", "\n">>
        \o <<" ", " ", "U+2022", " ", "A", " ", "[CORRECT", "]", "\n">>
        \o <<" ", " ", "U+2022", " ", "B", "\n">> \o <<"\n">>

\* C5: the choice produced from a candidate line that begins with the
\* bullet glyph, a hyphen or the mis-decoded bullet has text that no longer
\* begins with a bullet or whitespace; the producer's lines "  (bullet) A
\* [CORRECT]" and "  (bullet) B" yield the choices A (correct) and B (not).
C5_BulletsStripped ==
    (pc = "returned" /\ IsQuiz) =>
        /\ \A k \in 1..Len(QuestionBlocks) :
              LET cands   == KeptCandidates(QuestionBlocks[k])
                  choices == result[1].questions[k].choices
              IN  Len(choices) = Len(cands) /\
                  \A j \in 1..Len(cands) :
                      BeginsWithBullet(cands[j]) =>
                          Head(choices[j].text) \notin
                              {BulletGlyph, "-"} \cup BulletStripChars \cup Whitespace
        /\ GivenContent = ScenarioOneContent =>
              result[1].questions[1].choices =
                  <<[text |-> <<"A">>, is_correct |-> TRUE],
                    [text |-> <<"B">>, is_correct |-> FALSE]>>

\* the integers of the "Question <N>:" markers of the body, in the order
\* the markers appear
MarkerNumbers ==
    LET ms == Ascending(QuestionMarkers(body))
    IN  [k \in 1..Len(ms) |-> ToInt(QuestionMatchAt(body, ms[k]).group)]

\* the index values of the questions returned, in order
Indexes ==
    [k \in 1..Len(result[1].questions) |-> result[1].questions[k].index]

\* C6 as stated: the index values of the questions are strictly increasing,
\* and the questions are in the order of their markers.
C6_IndexStrictlyIncreasing ==
    (pc = "returned" /\ IsQuiz) =>
        /\ \A i \in 1..(Len(Indexes) - 1) : Indexes[i] < Indexes[i + 1]
        /\ Indexes = MarkerNumbers

\* C6 amended: the questions are in the order of the "Question <N>:"
\* markers of the body and each index is the integer written in its marker,
\* whether or not those integers are unique or increasing.
C6_IndexFollowsMarkers ==
    (pc = "returned" /\ IsQuiz) => Indexes = MarkerNumbers

\* two questions whose markers are not numbered upwards
C6_Witness ==
    /\ pc = "returned"
    /\ IsQuiz
    /\ Len(Indexes) = 2
    /\ Indexes[1] >= Indexes[2]
    /\ Indexes = MarkerNumbers

\* the blocks of the scenarios of the body, in order
ScenarioBlocks == BlocksOf(ScenarioSplit(body))

\* the position of the only occurrence of a marker
Only(block, marker) == CHOOSE i \in Occurrences(block, marker) : TRUE

\* each of the four markers occurs once in the block, discussion items,
\* then "Containment", then "Post-Incident Activities", then elevator pitch
CanonicalOrder(block) ==
    /\ \A m \in {DiscussionMarker, ContMarker, PostMarker, ElevatorMarker} :
          Cardinality(Occurrences(block, m)) = 1
    /\ Only(block, DiscussionMarker) < Only(block, ContMarker)
    /\ Only(block, ContMarker) < Only(block, PostMarker)
    /\ Only(block, PostMarker) < Only(block, ElevatorMarker)

\* the text of block strictly between positions i and j
Between(block, i, j) == SubSeq(block, i + 1, j - 1)

\* C7: a scenario block with the four markers in the canonical order is
\* parsed into the four buckets by position: scenario is the text before the
\* discussion marker (whitespace runs collapsed), containment the text
\* between "Containment" and "Post-Incident Activities", post-incident the
\* text between "Post-Incident Activities" and the elevator-pitch marker,
\* elevator pitch the text after it (each trimmed).
C7_CanonicalBuckets ==
    (pc = "returned" /\ IsAssignment) =>
        \A k \in 1..Len(ScenarioBlocks) :
            LET b  == ScenarioBlocks[k]
                sc == result[1].scenarios[k]
            IN  CanonicalOrder(b) =>
                  /\ sc.scenario =
                        Join(SplitWords(Between(b, 0, Only(b, DiscussionMarker))), <<" ">>)
                  /\ sc.containment =
                        Strip(Between(b, Only(b, ContMarker), Only(b, PostMarker)))
                  /\ sc.post_incident_activities =
                        Strip(Between(b, Only(b, PostMarker), Only(b, ElevatorMarker)))
                  /\ sc.elevator_pitch =
                        Strip(Between(b, Only(b, ElevatorMarker), Len(b) + 1))

\* a block in the canonical order, each bucket with its own text
C7_Witness ==
    /\ pc = "returned"
    /\ IsAssignment
    /\ Len(ScenarioBlocks) >= 1
    /\ CanonicalOrder(ScenarioBlocks[1])
    /\ result[1].scenarios[1].scenario = <<"How", "?">>
    /\ result[1].scenarios[1].containment = <<"c1">>
    /\ result[1].scenarios[1].post_incident_activities = <<"p1">>
    /\ result[1].scenarios[1].elevator_pitch = <<"e1">>

\* C8: without an "id" key parse() raises KeyError before anything is
\* parsed and returns nothing; with an id, a missing title or content is the
\* empty string and no lookup fails; a record without content is parsed.
C8_MissingIdIsFatal ==
    /\ ("id" \notin DOMAIN data /\ pc # "start") =>
          /\ pc = "raised"
          /\ exc = "KeyError"
          /\ result = <<>>
          /\ <<title, content, header, body>> = <<<<>>, <<>>, <<>>, <<>>>>
    /\ ("id" \in DOMAIN data /\ pc # "start") =>
          /\ exc # "KeyError"
          /\ item_id = data.id
          /\ "title" \notin DOMAIN data => title = <<>>
          /\ "content" \notin DOMAIN data =>
                (content = <<>> /\ (Finished => pc = "returned"))

\* a record with a content to parse and no id
C8_Witness ==
    /\ "id" \notin DOMAIN data
    /\ "content" \in DOMAIN data
    /\ "title" \in DOMAIN data
    /\ pc = "raised"
    /\ exc = "KeyError"

\* the marker the parser of the record splits the content on
BodyMarker == IF IsQuiz THEN <<"Questions:">> ELSE <<"Description:">>

HeadingPositions(s) ==
    {j \in 2..Len(s) : s[j] = "Scenario:" /\ s[j - 1] \in NameChars}

\* the length of the longest run of characters of the class that ends at s[j]
RECURSIVE BackRunLen(_, _)
BackRunLen(s, j) ==
    IF j >= 1 /\ s[j] \in NameChars THEN 1 + BackRunLen(s, j - 1) ELSE 0

\* the heading before the marker at position j, trimmed
HeadingBefore(s, j) == Strip(SubSeq(s, j - BackRunLen(s, j - 1), j - 1))

\* the names of the sections returned, in order
Names ==
    [k \in 1..Len(result[1].scenarios) |-> result[1].scenarios[k].name]

\* C10 as stated: every section name is one of a fixed closed set of
\* labels, here the names of the source's example.
C10_NamesFromClosedSet ==
    (pc = "returned" /\ IsAssignment) =>
        \A k \in 1..Len(Names) : Names[k] \in ExampleNames

\* C10 amended: the sections are, in order, the "Scenario:" markers of the
\* body that follow a run of letters, digits, spaces and hyphens, and each
\* name is that run, trimmed: any such run starts a section.
C10_NamesFromPattern ==
    (pc = "returned" /\ IsAssignment) =>
        LET hs == Ascending(HeadingPositions(body))
        IN  /\ Len(Names) = Len(hs)
            /\ \A k \in 1..Len(hs) :
                  /\ Names[k] = HeadingBefore(body, hs[k])
                  /\ \A n \in 1..Len(Names[k]) : Names[k][n] \in NameChars

\* a section named by a heading that the example does not have
C10_Witness ==
    /\ pc = "returned"
    /\ IsAssignment
    /\ Len(Names) = 2
    /\ Names[1] = <<"Lab", " ", "2">>
    /\ Names[2] \in ExampleNames

\* the text of s after the first occurrence of marker, "" without one
AfterFirst(s, marker) ==
    IF Contains(s, marker) THEN From(s, Find(s, marker) + Len(marker)) ELSE <<>>

\* the text of s before the first occurrence of marker, s without one
BeforeFirst(s, marker) ==
    IF Contains(s, marker) THEN SubSeq(s, 1, Find(s, marker) - 1) ELSE s

\* the three spans of a scenario block: the elevator pitch is what follows
\* the first elevator-pitch marker of the text after the discussion marker;
\* of the discussion region before it, containment is what lies between the
\* first "Containment" and the next "Post-Incident Activities" and
\* post-incident what follows; a region without one of the two is all
\* containment
SpansOf(block) ==
    LET region == Strip(AfterFirst(Strip(block), DiscussionMarker))
        d      == DiscussionOf(block)
        both   == Contains(d, ContMarker) /\ Contains(d, PostMarker)
        ac     == AfterFirst(d, ContMarker)
    IN  [containment    |-> IF both THEN BeforeFirst(ac, PostMarker) ELSE d,
         post_incident  |-> IF both THEN AfterFirst(ac, PostMarker) ELSE <<>>,
         elevator_pitch |-> AfterFirst(region, ElevatorMarker)]

\* the non-blank trimmed lines of a span
NonBlankLines(span) == NonEmpty(StripEach(SplitLines(span)))

\* a str: each of its elements is one lexeme
IsText(s) == \A i \in 1..Len(s) : s[i] \in STRING

\* C11 as stated: the record returned for an assignment has the keys
\* assignment_id, title and sections, each section the keys name, scenario
\* and prompts, and each of prompts.containment, prompts.post_incident and
\* prompts.elevator_pitch is the list of the non-blank trimmed lines of its
\* span.
C11_SectionsWithPromptLists ==
    (pc = "returned" /\ IsAssignment) =>
        /\ DOMAIN result[1] = {"assignment_id", "title", "sections"}
        /\ Len(result[1].sections) = Len(ScenarioBlocks)
        /\ \A k \in 1..Len(ScenarioBlocks) :
              LET sec   == result[1].sections[k]
                  spans == SpansOf(ScenarioBlocks[k])
              IN  /\ DOMAIN sec = {"name", "scenario", "prompts"}
                  /\ DOMAIN sec.prompts =
                        {"containment", "post_incident", "elevator_pitch"}
                  /\ sec.prompts.containment = NonBlankLines(spans.containment)
                  /\ sec.prompts.post_incident = NonBlankLines(spans.post_incident)
                  /\ sec.prompts.elevator_pitch = NonBlankLines(spans.elevator_pitch)

\* C11 amended: the record returned for an assignment has the keys
\* assignment_id, title, meta and scenarios, meta the keys raw_header, points
\* and submission_types, and each scenario the keys name, scenario,
\* containment, post_incident_activities and elevator_pitch; each of the
\* last three is one string, its span trimmed, with the line breaks and the
\* blank lines of the span in it.
C11_ScenariosWithTextFields ==
    (pc = "returned" /\ IsAssignment) =>
        /\ DOMAIN result[1] = {"assignment_id", "title", "meta", "scenarios"}
        /\ DOMAIN result[1].meta = {"raw_header", "points", "submission_types"}
        /\ result[1].assignment_id = data.id
        /\ Len(result[1].scenarios) = Len(ScenarioBlocks)
        /\ \A k \in 1..Len(ScenarioBlocks) :
              LET sc    == result[1].scenarios[k]
                  spans == SpansOf(ScenarioBlocks[k])
              IN  /\ DOMAIN sc = {"name", "scenario", "containment",
                                  "post_incident_activities", "elevator_pitch"}
                  /\ IsText(sc.containment)
                  /\ IsText(sc.post_incident_activities)
                  /\ IsText(sc.elevator_pitch)
                  /\ sc.containment = Strip(spans.containment)
                  /\ sc.post_incident_activities = Strip(spans.post_incident)
                  /\ sc.elevator_pitch = Strip(spans.elevator_pitch)

\* a scenario whose containment is one string of two lines with a blank
\* line between them, and whose post-incident text is not empty
C11_Witness ==
    /\ pc = "returned"
    /\ IsAssignment
    /\ Len(result[1].scenarios) >= 1
    /\ Contains(result[1].scenarios[1].containment, <<"\n", "\n">>)
    /\ Len(NonBlankLines(result[1].scenarios[1].containment)) >= 2
    /\ result[1].scenarios[1].post_incident_activities # <<>>

\* save() has ended, one way or the other
SaveFinished == save_pc \in {"returned", "raised"}

\* the file at path holds the whole text of the parse result
FileHoldsResult == result # <<>> /\ file = Some(JsonDump(result[1]))

\* C12: save() of either parser has the result of parse() before it opens
\* the destination.  While parse() has not returned, and for good when it
\* raises, the file at path and the output are as they were, and save()
\* raises what parse() raised.  The message is printed only with the whole
\* text in the file, and once; when save() returns the file holds exactly
\* the text of the parse result, whatever it held before, and the message
\* names the path.  When the open or the write fails, save() raises it and
\* prints nothing.
C12_SaveWritesAfterParse ==
    /\ [][pc # "returned" => (file' = file /\ stdout' = stdout)]_vars
    /\ [][stdout' # stdout =>
            /\ FileHoldsResult
            /\ file' = file
            /\ stdout' = <<SavedMessage(data.type, Path)>>]_vars
    /\ []((SaveFinished /\ pc = "raised") =>
            /\ save_pc = "raised"
            /\ save_exc = exc
            /\ stdout = <<>>)
    /\ [](save_pc = "returned" =>
            /\ pc = "returned"
            /\ save_exc = ""
            /\ FileHoldsResult
            /\ stdout = <<SavedMessage(data.type, Path)>>)
    /\ []((save_pc = "raised" /\ pc = "returned") =>
            /\ save_exc = "OSError"
            /\ stdout = <<>>)
    /\ []((SaveFinished /\ pc = "returned" /\ ~FileHoldsResult) =>
            /\ save_pc = "raised"
            /\ save_exc = "OSError")

\* save() of a record without an id, with a file already at path: parse()
\* has raised, save() has raised the same, the file is as it was
C12_Witness ==
    /\ save_pc = "raised"
    /\ pc = "raised"
    /\ "id" \notin DOMAIN data
    /\ "content" \in DOMAIN data
    /\ save_exc = "KeyError"
    /\ file = Some(OldText)
    /\ stdout = <<>>

QuestionStarts == Ascending(QuestionMarkers(body))

\* the positions of the "Scenario:" of the "<name>Scenario:" markers of the
\* body, in order
ScenarioEnds == Ascending(HeadingPositions(body))

\* where the marker that ends at position j of the body starts: at the
\* first character of the name
ScenarioStart(j) == j - BackRunLen(body, j - 1)

\* the text of the body from the end of the k-th marker to the start of
\* the next one, or to the end of the body: ends[k] is where the k-th
\* marker ends and starts[k] where it starts
TextAfterMarker(starts, ends, k) ==
    SubSeq(body, ends[k] + 1,
           IF k < Len(starts) THEN starts[k + 1] - 1 ELSE Len(body))

\* C14: the questions returned are as many as the "Question <N>:" markers
\* of the body and the scenarios as many as its "<name>Scenario:" markers,
\* none when there is no marker; the k-th item is what its block
\* interpreter makes of the text from the end of the k-th marker to the
\* start of the next marker or the end of the body, so the text before the
\* first marker is in no item.
C14_OneItemPerMarker ==
    /\ (pc = "returned" /\ IsQuiz) =>
          LET starts == QuestionStarts
              ends   == [k \in 1..Len(starts) |->
                            QuestionMatchAt(body, starts[k]).end]
          IN  /\ Len(result[1].questions) = Len(starts)
              /\ \A k \in 1..Len(starts) :
                    LET q == result[1].questions[k]
                    IN  [question |-> q.question, points |-> q.points,
                         choices |-> q.choices]
                            = ParseQuestionBlock(TextAfterMarker(starts, ends, k))
    /\ (pc = "returned" /\ IsAssignment) =>
          LET ends   == ScenarioEnds
              starts == [k \in 1..Len(ends) |-> ScenarioStart(ends[k])]
          IN  /\ Len(result[1].scenarios) = Len(ends)
              /\ \A k \in 1..Len(ends) :
                    result[1].scenarios[k] =
                        ParseScenarioBlock(HeadingBefore(body, ends[k]),
                                           TextAfterMarker(starts, ends, k)).value

\* a quiz body with text before its first marker and two markers, the
\* first followed by the text of a question
C14_Witness ==
    /\ pc = "returned"
    /\ IsQuiz
    /\ Len(QuestionStarts) = 2
    /\ QuestionStarts[1] > 1
    /\ Strip(SubSeq(body, 1, QuestionStarts[1] - 1)) # <<>>
    /\ Len(result[1].questions) = 2
    /\ result[1].questions[1].question # <<>>

\* the lines of a block, each trimmed
TrimmedLines(block) == StripEach(SplitLines(block))

\* the positions of the lines of a block that start with "Points:"
PointsPositions(block) ==
    {i \in 1..Len(TrimmedLines(block)) :
        StartsWith(TrimmedLines(block)[i], <<"Points:">>)}

\* the whitespace-delimited tokens after the "Points:" a line starts with
TokensAfterPoints(line) == SplitWords(From(line, 2))

\* the greatest element of a finite set of integers
SetMax(S) == CHOOSE i \in S : \A j \in S : j <= i

\* C15: in a question block whose first line starting with "Points:" is at
\* position p, the question text is the non-blank lines before p joined
\* with single spaces, and points is the first token after "Points:" on
\* that line as a number, None when the line has no token or the token is
\* no number, whatever later "Points:" lines say; in a block with no such
\* line, points is None and the question text is all its non-blank lines
\* joined with single spaces.
C15_FirstPointsLineDecides ==
    (pc = "returned" /\ IsQuiz) =>
        \A k \in 1..Len(QuestionBlocks) :
            LET lines == TrimmedLines(QuestionBlocks[k])
                ps    == PointsPositions(QuestionBlocks[k])
                q     == result[1].questions[k]
            IN  IF ps = {}
                THEN /\ q.points = None
                     /\ q.question = Join(NonEmpty(lines), <<" ">>)
                ELSE LET p      == SetMin(ps)
                         tokens == TokensAfterPoints(lines[p])
                     IN  /\ q.question =
                               Join(NonEmpty(SubSeq(lines, 1, p - 1)), <<" ">>)
                         /\ q.points =
                               IF tokens = <<>> \/ Float(tokens[1]).exc # ""
                               THEN None
                               ELSE Some(Float(tokens[1]).value)

\* a block with two "Points:" lines, the first worth 2.5 and followed by a
\* word, the second worth 2, below a question text of two lines with a
\* blank line between them
C15_Witness ==
    /\ pc = "returned"
    /\ IsQuiz
    /\ Len(QuestionBlocks) = 1
    /\ Cardinality(PointsPositions(QuestionBlocks[1])) = 2
    /\ TokensAfterPoints(TrimmedLines(QuestionBlocks[1])
                             [SetMax(PointsPositions(QuestionBlocks[1]))])
           = <<(<<"2">>)>>
    /\ result[1].questions[1].points =
           Some([neg |-> FALSE, num |-> 25, scale |-> 1])
    /\ result[1].questions[1].question = <<"Q", " ", "text", " ", "A">>

\* the trimmed lines of a block after its first line starting with
\* "Points:", none when it has no such line
LinesAfterPoints(block) ==
    IF PointsPositions(block) = {} THEN <<>>
    ELSE From(TrimmedLines(block), SetMin(PointsPositions(block)) + 1)

\* the positions of the lines that start with "Answer Choices:"
AnswerHeadPositions(lines) ==
    {i \in 1..Len(lines) : StartsWith(lines[i], <<"Answer Choices:">>)}

\* the choice candidates of a block: the non-blank lines after the first
\* "Answer Choices:" line that follows the first "Points:" line
CandidateLines(block) ==
    LET after == LinesAfterPoints(block)
    IN  IF AnswerHeadPositions(after) = {} THEN <<>>
        ELSE NonEmpty(From(after, SetMin(AnswerHeadPositions(after)) + 1))

\* C16: the choices of a question are made, in order, of the candidates of
\* its block that have text left after the bullet and the token are
\* removed, one choice each; the candidates are the non-blank lines after
\* the first "Answer Choices:" line among the lines after the first
\* "Points:" line, so a block without a "Points:" line, or without an
\* "Answer Choices:" line after it, has no choices.
C16_ChoicesAfterPointsOnly ==
    (pc = "returned" /\ IsQuiz) =>
        \A k \in 1..Len(QuestionBlocks) :
            LET cands   == CandidateLines(QuestionBlocks[k])
                kept    == SelectSeq(cands, LAMBDA cl : ParseChoice(cl) # <<>>)
                choices == result[1].questions[k].choices
            IN  /\ Len(choices) = Len(kept)
                /\ \A j \in 1..Len(kept) : <<choices[j]>> = ParseChoice(kept[j])
                /\ (PointsPositions(QuestionBlocks[k]) = {}
                       \/ AnswerHeadPositions(LinesAfterPoints(QuestionBlocks[k])) = {})
                      => choices = <<>>

\* a block with no "Points:" line and an "Answer Choices:" line with two
\* answers below it, and no choices
C16_Witness ==
    /\ pc = "returned"
    /\ IsQuiz
    /\ Len(QuestionBlocks) = 1
    /\ PointsPositions(QuestionBlocks[1]) = {}
    /\ LET lines == TrimmedLines(QuestionBlocks[1])
           heads == AnswerHeadPositions(lines)
       IN  /\ heads # {}
           /\ Len(NonEmpty(From(lines, SetMin(heads) + 1))) = 2
    /\ result[1].questions[1].choices = <<>>

\* the scenario records handed to analyze_all_chunks
Chunks == result[1].scenarios

\* C17: every scenario record that forecast() hands to the FAQ pipeline
\* has neither the keys of a text chunk (chunk_id, text) nor those of a
\* quiz question (index, question); normalize_chunk returns for it the
\* text of the whole record, the section title "Unknown" and the chunk id
\* -1, and every FAQ result made from it has the section title "Unknown",
\* whatever the scenario's name.
C17_ScenariosAreUnknownChunks ==
    (forecast_pc \in {"analyze", "returned", "raised"} /\ pc = "returned") =>
        /\ Len(normalized) <= Len(Chunks)
        /\ \A k \in 1..Len(normalized) :
              /\ ~({"chunk_id", "text"} \subseteq DOMAIN Chunks[k])
              /\ ~({"index", "question"} \subseteq DOMAIN Chunks[k])
              /\ normalized[k] = <<StrOfChunk(Chunks[k]), <<"Unknown">>, -1>>
        /\ \A r \in 1..Len(result_list) :
              result_list[r].section_title = <<"Unknown">>

\* two scenarios named "Cloud Storage" and "PII Accident", both analyzed,
\* with an FAQ result for each under the title "Unknown"
C17_Witness ==
    /\ forecast_pc = "returned"
    /\ pc = "returned"
    /\ Len(Chunks) = 2
    /\ Chunks[1].name = <<"Cloud", " ", "Storage">>
    /\ Chunks[2].name = <<"PII", " ", "Accident">>
    /\ Len(normalized) = 2
    /\ Len(result_list) = 2
    /\ result_list[1].section_title = <<"Unknown">>
    /\ result_list[2].section_title = <<"Unknown">>

====
